---------------------------- MODULE Spec2Model ----------------------------
(***************************************************************************)
(* A model of the clustering package: Vector2 arithmetic, the Dataset,     *)
(* the CentroidClusterer (FindCluster, Clusters, ClusteredPartition) and   *)
(* the K-Means engine (KMeans, KMeansWithSampler, KMeansWithCentroids and  *)
(* its refinement loop).                                                   *)
(*                                                                         *)
(* float64 components are modelled as exact rationals [n, d] in lowest     *)
(* terms (d > 0); rounding is not modelled.  Go's 0-based slice indices    *)
(* are kept for cluster identifiers (0..k-1); the sequence holding the     *)
(* centroids is 1-based, so centroid i is cs[i + 1].                       *)
(***************************************************************************)
EXTENDS Integers, Sequences, FiniteSets, TLC

VARIABLES
    data,          \* Dataset.data: the ordered vectors of the dataset
    centroids,     \* the centroid list (the CentroidClusterer)
    initial,       \* the centroids the refinement loop started from
    entry,         \* which entry point was called
    pc,            \* "start", "loop", "done", "panic"
    passes,        \* refinement passes completed
    deltas,        \* the deltas createNewCentroids returned in the last pass
    maxDelta,      \* the loop variable maxDelta
    samplerCalls,  \* how often the sampler was invoked
    ret,           \* what the last clusterer query returned
    vec,           \* the receiver of the vector operations
    vop,           \* the last vector operation applied
    nops           \* vector operations applied

vars == <<data, centroids, initial, entry, pc, passes, deltas, maxDelta,
          samplerCalls, ret, vec, vop, nops>>

(***************************************************************************)
(* Bounds                                                                  *)
(***************************************************************************)
MaxData == 3
MaxK == 2
MaxCentroids == 3
MaxQueryData == 2
MaxPasses == 6
MaxOps == 2

(***************************************************************************)
(* Exact rationals standing for float64                                    *)
(***************************************************************************)
Abs(a) == IF a < 0 THEN -a ELSE a

RECURSIVE GCD(_, _)
GCD(a, b) == IF b = 0 THEN a ELSE GCD(b, a % b)

\* n / d in lowest terms, for d > 0
Rat(n, d) ==
    IF d = 1 THEN [n |-> n, d |-> 1]
    ELSE LET g == GCD(Abs(n), d)
         IN  [n |-> n \div g, d |-> d \div g]

RInt(i) == [n |-> i, d |-> 1]
RAdd(a, b) == Rat(a.n * b.d + b.n * a.d, a.d * b.d)
RSub(a, b) == Rat(a.n * b.d - b.n * a.d, a.d * b.d)
RMul(a, b) == Rat(a.n * b.n, a.d * b.d)
RLt(a, b) == a.n * b.d < b.n * a.d
RLe(a, b) == a.n * b.d <= b.n * a.d
\* 1 / x for x > 0
RInv(a) == Rat(a.d, a.n)
Zero == RInt(0)
One == RInt(1)

(***************************************************************************)
(* Vector2                                                                 *)
(***************************************************************************)
Vector2d(x, y) == <<x, y>>

V(x, y) == Vector2d(RInt(x), RInt(y))

\* vector2Creator.Null
Null == Vector2d(Zero, Zero)

\* vector2Creator.New: f(0), f(1)
New(f0, f1) == Vector2d(f0, f1)

Add(v, other) == <<RAdd(v[1], other[1]), RAdd(v[2], other[2])>>

Subtract(v, other) == <<RSub(v[1], other[1]), RSub(v[2], other[2])>>

MulScalar(v, s) == <<RMul(v[1], s), RMul(v[2], s)>>

TransposedMul(v, other) == RAdd(RMul(v[1], other[1]), RMul(v[2], other[2]))

\* Length is the inner product of the vector with itself
Length(v) == TransposedMul(v, v)

DistanceTo(v, other) == Length(Subtract(v, other))

\* the values rand.Float64() is drawn from: a few points of [0, 1)
RandOutcomes == {Zero, Rat(3, 4)}

\* Normalize, given the two values the random source would deliver
Normalize(v, r1, r2) ==
    IF Length(v) = Zero
    THEN Vector2d(r1, r2)
    ELSE MulScalar(v, RInv(Length(v)))

\* the scalars MulScalar is called with
Scalars == {Zero, One, Rat(1, 2)}

NoVop == [op |-> "none", recv |-> Null]

NoEntry == [name |-> "none", k |-> 0]

(***************************************************************************)
(* Dataset                                                                 *)
(***************************************************************************)
Points == {V(0, 0), V(1, 0), V(2, 0), V(1, 2)}

\* the centroids a clusterer is built from directly
CentroidPoints == {V(0, 0), V(2, 0), V(1, 2)}

SeqsUpTo(S, n) == UNION {[1..m -> S] : m \in 0..n}

Count(d) == Len(d)

\* IsEmpty answering false for every dataset
IsEmptyNever(d) == FALSE

IsEmpty(d) == Count(d) = 0

AsSlice(d) == d

RECURSIVE MaxFrom(_, _, _, _)
MaxFrom(d, i, result, length) ==
    IF i > Len(d) THEN result
    ELSE LET vecLen == Length(d[i])
         IN  IF RLt(length, vecLen)
             THEN MaxFrom(d, i + 1, d[i], vecLen)
             ELSE MaxFrom(d, i + 1, result, length)

Max(d) == MaxFrom(AsSlice(d), 1, Null, Length(Null))

(***************************************************************************)
(* CentroidClusterer                                                       *)
(***************************************************************************)
\* Centroids: the map from cluster identifier to centroid
Centroids(clusterer) ==
    [cluster \in 0..(Len(clusterer) - 1) |-> clusterer[cluster + 1]]

\* Clusters: the identifiers 0..len-1 in ascending order
Clusters(clusterer) == [i \in 1..Len(clusterer) |-> i - 1]

ErrNoCentroids == "There are no centroids in the CentroidClusterer"
ErrNil == "nil"

\* the orders in which a range over map m may visit its keys: Go leaves
\* the iteration order of a map unspecified
MapOrders(m) ==
    LET n == Cardinality(DOMAIN m)
    IN  {o \in [1..n -> DOMAIN m] : \A i, j \in 1..n : i /= j => o[i] /= o[j]}

\* centroid.DistanceTo(v) for every entry of the map
DistancesTo(m, v) == [cluster \in DOMAIN m |-> DistanceTo(m[cluster], v)]

\* the body of FindCluster's loop over the map, keys visited in `order`;
\* dist holds DistanceTo(v) of each centroid, and the assigned centroid is
\* the one of assignedCluster
RECURSIVE FindScan(_, _, _, _)
FindScan(dist, order, j, assignedCluster) ==
    IF j > Len(order) THEN assignedCluster
    ELSE LET cluster == order[j]
         IN  IF RLt(dist[cluster], dist[assignedCluster])
             THEN FindScan(dist, order, j + 1, cluster)
             ELSE FindScan(dist, order, j + 1, assignedCluster)

\* FindClusterIn without the test for an empty clusterer
FindClusterInUnguarded(m, dist, order) ==
    [cluster |-> FindScan(dist, order, 1, 0), err |-> ErrNil]

\* FindCluster on the map m of centroids, visited in `order`
FindClusterIn(m, dist, order) ==
    IF Cardinality(DOMAIN m) = 0
    THEN [cluster |-> -1, err |-> ErrNoCentroids]
    ELSE [cluster |-> FindScan(dist, order, 1, 0), err |-> ErrNil]

\* FindCluster, with the order in which the map is visited
FindCluster(clusterer, v, order) ==
    FindClusterIn(Centroids(clusterer),
                  DistancesTo(Centroids(clusterer), v), order)

\* every result FindCluster can deliver for v: FindCluster(clusterer, v, o)
\* for each order o, the distances computed once
FindClusterOutcomes(clusterer, v) ==
    UNION {{FindClusterIn(Centroids(clusterer), dist, o) :
               o \in MapOrders(Centroids(clusterer))} :
           dist \in {DistancesTo(Centroids(clusterer), v)}}

EmptyMap == [c \in {} |-> <<>>]

\* AppendTo storing the vector alone instead of appending it
AppendToOverwriting(partition, cluster, v) ==
    [c \in DOMAIN partition \cup {cluster} |->
        IF c = cluster THEN <<v>> ELSE partition[c]]

\* partition[cluster] = append(partition[cluster], vec); a missing key reads as nil
AppendTo(partition, cluster, v) ==
    [c \in DOMAIN partition \cup {cluster} |->
        IF c = cluster
        THEN Append(IF c \in DOMAIN partition THEN partition[c] ELSE <<>>, v)
        ELSE partition[c]]

\* the loop of ClusteredPartition from the i-th vector on; found[i] is what
\* the i-th FindCluster call returned
RECURSIVE PartitionFrom(_, _, _, _)
PartitionFrom(slice, i, partition, found) ==
    IF i > Len(slice) THEN [nilPart |-> FALSE, part |-> partition, err |-> ErrNil]
    ELSE IF found[i].err /= ErrNil
         THEN [nilPart |-> TRUE, part |-> EmptyMap, err |-> found[i].err]
         ELSE PartitionFrom(slice, i + 1,
                            AppendTo(partition, found[i].cluster, slice[i]), found)

ClusteredPartition(clusterer, dataset, found) ==
    PartitionFrom(AsSlice(dataset), 1, EmptyMap, found)

\* the results the FindCluster calls of one ClusteredPartition call can deliver
RECURSIVE FoundFrom(_, _, _)
FoundFrom(clusterer, slice, i) ==
    IF i > Len(slice) THEN {<<>>}
    ELSE {<<r>> \o rest : r \in FindClusterOutcomes(clusterer, slice[i]),
                          rest \in FoundFrom(clusterer, slice, i + 1)}

FoundChoices(clusterer, dataset) == FoundFrom(clusterer, AsSlice(dataset), 1)

NoRet ==
    [op |-> "none", v |-> Null, cluster |-> 0, err |-> ErrNil,
     nilPart |-> TRUE, part |-> EmptyMap, clusters |-> <<>>]

CallFindCluster ==
    /\ pc = "done"
    /\ ret.op = "none"
    /\ \E v \in Points :
         \E r \in FindClusterOutcomes(centroids, v) :
            ret' = [NoRet EXCEPT !.op = "FindCluster", !.v = v,
                                 !.cluster = r.cluster, !.err = r.err]
    /\ UNCHANGED <<data, centroids, initial, entry, pc, passes, deltas,
                   maxDelta, samplerCalls, vec, vop, nops>>

CallClusteredPartition ==
    /\ pc = "done"
    /\ ret.op = "none"
    /\ \E found \in FoundChoices(centroids, data) :
         LET r == ClusteredPartition(centroids, data, found)
         IN  ret' = [NoRet EXCEPT !.op = "ClusteredPartition",
                                  !.nilPart = r.nilPart, !.part = r.part,
                                  !.err = r.err]
    /\ UNCHANGED <<data, centroids, initial, entry, pc, passes, deltas,
                   maxDelta, samplerCalls, vec, vop, nops>>

CallClusters ==
    /\ pc = "done"
    /\ ret.op = "none"
    /\ ret' = [NoRet EXCEPT !.op = "Clusters", !.clusters = Clusters(centroids)]
    /\ UNCHANGED <<data, centroids, initial, entry, pc, passes, deltas,
                   maxDelta, samplerCalls, vec, vop, nops>>

\* a clusterer built directly from a list of centroids, and a dataset
InitClusterer ==
    /\ data \in SeqsUpTo(Points, MaxQueryData)
    /\ centroids \in SeqsUpTo(CentroidPoints, MaxCentroids)
    /\ initial = centroids
    /\ entry = [name |-> "literal", k |-> Len(centroids)]
    /\ pc = "done"
    /\ passes = 0
    /\ deltas = <<>>
    /\ maxDelta = One
    /\ samplerCalls = 0
    /\ ret = NoRet
    /\ vec = Null
    /\ vop = NoVop
    /\ nops = 0

NextClusterer ==
    \/ CallFindCluster
    \/ CallClusteredPartition
    \/ CallClusters

SpecClusterer == InitClusterer /\ [][NextClusterer]_vars

(***************************************************************************)
(* K-Means                                                                 *)
(***************************************************************************)
\* the vectors the uniform sampler can return for a maximum length `max`:
\* a vector of the unit cube, drawn again while its Length is 0 or above 1,
\* scaled by max
UniformSamplerOutcomes(max) ==
    {MulScalar(New(r1, r2), max) :
        <<r1, r2>> \in {<<a, b>> \in RandOutcomes \X RandOutcomes :
                          ~(Length(New(a, b)) = Zero \/ RLt(One, Length(New(a, b))))}}

\* the vectors a caller's sampler returns
SuppliedSamplerOutcomes(max) == {V(0, 0), V(1, 2)}

\* the zero value of a bucketCollector
NewBucket == [hasAverage |-> FALSE, average |-> Null, normalization |-> 0]

Collect(collector, v) ==
    [hasAverage |-> TRUE,
     average |-> IF ~collector.hasAverage THEN v ELSE Add(collector.average, v),
     normalization |-> collector.normalization + 1]

\* Average returning the sum, not scaled by 1 / normalization
AverageUnscaled(collector) ==
    IF ~collector.hasAverage
    THEN [isNil |-> TRUE, v |-> Null]
    ELSE [isNil |-> FALSE, v |-> collector.average]

\* Average: nil for a bucket that collected nothing
Average(collector) ==
    IF ~collector.hasAverage
    THEN [isNil |-> TRUE, v |-> Null]
    ELSE [isNil |-> FALSE,
          v |-> MulScalar(collector.average, RInv(RInt(collector.normalization)))]

\* NearestScan taking a centroid that is as close, not only a closer one
RECURSIVE NearestScanLastWins(_, _, _, _, _)
NearestScanLastWins(record, cs, k, cluster, distToCluster) ==
    IF k > Len(cs) - 1 THEN cluster
    ELSE LET distToCentroid == DistanceTo(record, cs[k + 1])
         IN  IF RLe(distToCentroid, distToCluster)
             THEN NearestScanLastWins(record, cs, k + 1, k, distToCentroid)
             ELSE NearestScanLastWins(record, cs, k + 1, cluster, distToCluster)

\* the inner loop of collectClusters: the scan over the centroids in index order
RECURSIVE NearestScan(_, _, _, _, _)
NearestScan(record, cs, k, cluster, distToCluster) ==
    IF k > Len(cs) - 1 THEN cluster
    ELSE LET distToCentroid == DistanceTo(record, cs[k + 1])
         IN  IF RLt(distToCentroid, distToCluster)
             THEN NearestScan(record, cs, k + 1, k, distToCentroid)
             ELSE NearestScan(record, cs, k + 1, cluster, distToCluster)

\* the outer loop of collectClusters from the i-th record on
RECURSIVE CollectFrom(_, _, _, _)
CollectFrom(slice, cs, i, buckets) ==
    IF i > Len(slice) THEN buckets
    ELSE LET cluster == NearestScan(slice[i], cs, 0, 0, DistanceTo(cs[1], slice[i]))
         IN  CollectFrom(slice, cs, i + 1,
                 [buckets EXCEPT ![cluster + 1] = Collect(@, slice[i])])

collectClusters(dataset, cs) ==
    CollectFrom(AsSlice(dataset), cs, 1, [i \in 1..Len(cs) |-> NewBucket])

\* centroids[0] is read for the first record: out of range when there is none
collectClustersPanics(dataset, cs) == Len(AsSlice(dataset)) > 0 /\ Len(cs) = 0

createNewCentroids(cs, buckets) ==
    [centroids |-> [i \in 1..Len(cs) |->
                      IF Average(buckets[i]).isNil THEN cs[i]
                      ELSE Average(buckets[i]).v],
     deltas |-> [i \in 1..Len(cs) |->
                      IF Average(buckets[i]).isNil THEN Zero
                      ELSE DistanceTo(cs[i], Average(buckets[i]).v)]]

\* maxDelta = 0, then the largest delta above it
RECURSIVE MaxDeltaFrom(_, _, _)
MaxDeltaFrom(ds, i, m) ==
    IF i > Len(ds) THEN m
    ELSE MaxDeltaFrom(ds, i + 1, IF RLt(m, ds[i]) THEN ds[i] ELSE m)

Threshold == Rat(1, 10)

\* the loop condition as maxDelta > 0
LoopConditionAboveZero(md) == RLt(Zero, md)

\* the loop condition never letting the loop end
LoopConditionAlways(md) == TRUE

\* the loop condition maxDelta > 0.1
LoopCondition(md) == RLt(Threshold, md)

\* the vectors sampler(i, max) may return, for the uniform sampler and for
\* a sampler the caller supplies
SamplerOutcomes(sampler, max) ==
    IF sampler = "uniformSampler" THEN UniformSamplerOutcomes(max)
    ELSE SuppliedSamplerOutcomes(max)

\* the centroid lists makeCentroids can build: centroids[i] = sampler(i, maxLen)
makeCentroidsChoices(k, dataset, sampler) ==
    LET maxLen == Length(Max(dataset))
    IN  [1..k -> SamplerOutcomes(sampler, maxLen)]

\* KMeansWithCentroids up to the first test of the loop condition
KMeansWithCentroids(cs) ==
    IF IsEmpty(data)
    THEN /\ centroids' = <<>>
         /\ pc' = "done"
         /\ maxDelta' = maxDelta
    ELSE /\ centroids' = cs
         /\ maxDelta' = One
         /\ pc' = IF LoopCondition(One) THEN "loop" ELSE "done"

CallKMeansWithCentroids ==
    /\ pc = "start"
    /\ \E cs \in SeqsUpTo(Points, MaxK) :
         /\ KMeansWithCentroids(cs)
         /\ initial' = cs
         /\ entry' = [name |-> "KMeansWithCentroids", k |-> Len(cs)]
    /\ UNCHANGED <<data, passes, deltas, samplerCalls, ret, vec, vop, nops>>

KMeansWithSampler(k, sampler) ==
    IF IsEmpty(data)
    THEN /\ centroids' = <<>>
         /\ initial' = <<>>
         /\ pc' = "done"
         /\ UNCHANGED <<maxDelta, samplerCalls>>
    ELSE \E cs \in makeCentroidsChoices(k, data, sampler) :
            /\ samplerCalls' = samplerCalls + k
            /\ initial' = cs
            /\ KMeansWithCentroids(cs)

CallKMeansWithSampler ==
    /\ pc = "start"
    /\ \E k \in 0..MaxK :
         /\ KMeansWithSampler(k, "supplied")
         /\ entry' = [name |-> "KMeansWithSampler", k |-> k]
    /\ UNCHANGED <<data, passes, deltas, ret, vec, vop, nops>>

CallKMeans ==
    /\ pc = "start"
    /\ \E k \in 0..MaxK :
         /\ IF IsEmpty(data)
            THEN /\ centroids' = <<>>
                 /\ initial' = <<>>
                 /\ pc' = "done"
                 /\ UNCHANGED <<maxDelta, samplerCalls>>
            ELSE KMeansWithSampler(k, "uniformSampler")
         /\ entry' = [name |-> "KMeans", k |-> k]
    /\ UNCHANGED <<data, passes, deltas, ret, vec, vop, nops>>

\* one pass of the refinement loop of KMeansWithCentroids
Pass ==
    /\ pc = "loop"
    /\ passes < MaxPasses
    /\ IF collectClustersPanics(data, centroids)
       THEN /\ pc' = "panic"
            /\ UNCHANGED <<centroids, passes, deltas, maxDelta>>
       ELSE \E buckets \in {collectClusters(data, centroids)} :
            \E new \in {createNewCentroids(centroids, buckets)} :
            \E md \in {MaxDeltaFrom(new.deltas, 1, Zero)} :
                /\ centroids' = new.centroids
                /\ deltas' = new.deltas
                /\ maxDelta' = md
                /\ passes' = passes + 1
                /\ pc' = IF LoopCondition(md) THEN "loop" ELSE "done"
    /\ UNCHANGED <<data, initial, entry, samplerCalls, ret, vec, vop, nops>>

Init ==
    /\ data \in SeqsUpTo(Points, MaxData)
    /\ centroids = <<>>
    /\ initial = <<>>
    /\ entry = NoEntry
    /\ pc = "start"
    /\ passes = 0
    /\ deltas = <<>>
    /\ maxDelta = One
    /\ samplerCalls = 0
    /\ ret = NoRet
    /\ vec = Null
    /\ vop = NoVop
    /\ nops = 0

Next ==
    \/ CallKMeans
    \/ CallKMeansWithSampler
    \/ CallKMeansWithCentroids
    \/ Pass
    \/ CallClusteredPartition
    \/ CallClusters

Spec == Init /\ [][Next]_vars

\* when a pass can be made: ENABLED <<Pass>>_vars, as Pass changes pc or passes
PassEnabled == pc = "loop" /\ passes < MaxPasses

\* the loop runs on, nothing else being scheduled against it: weak fairness
\* of Pass, WF_vars(Pass), written with PassEnabled for ENABLED <<Pass>>_vars
PassFairness == []<>(~PassEnabled) \/ []<><<Pass>>_vars

\* the K-Means entry points and the refinement loop alone
NextLoop ==
    \/ CallKMeans
    \/ CallKMeansWithSampler
    \/ CallKMeansWithCentroids
    \/ Pass

FairSpec == Init /\ [][NextLoop]_vars /\ PassFairness

(***************************************************************************)
(* Vector operations applied one after another to a Vector2                *)
(***************************************************************************)
VAdd ==
    /\ nops < MaxOps
    /\ \E other \in Points : vec' = Add(vec, other)
    /\ vop' = [op |-> "Add", recv |-> vec]
    /\ nops' = nops + 1
    /\ UNCHANGED <<data, centroids, initial, entry, pc, passes, deltas,
                   maxDelta, samplerCalls, ret>>

VSubtract ==
    /\ nops < MaxOps
    /\ \E other \in Points : vec' = Subtract(vec, other)
    /\ vop' = [op |-> "Subtract", recv |-> vec]
    /\ nops' = nops + 1
    /\ UNCHANGED <<data, centroids, initial, entry, pc, passes, deltas,
                   maxDelta, samplerCalls, ret>>

VMulScalar ==
    /\ nops < MaxOps
    /\ \E other \in Scalars : vec' = MulScalar(vec, other)
    /\ vop' = [op |-> "MulScalar", recv |-> vec]
    /\ nops' = nops + 1
    /\ UNCHANGED <<data, centroids, initial, entry, pc, passes, deltas,
                   maxDelta, samplerCalls, ret>>

VNormalize ==
    /\ nops < MaxOps
    /\ \E r1, r2 \in RandOutcomes : vec' = Normalize(vec, r1, r2)
    /\ vop' = [op |-> "Normalize", recv |-> vec]
    /\ nops' = nops + 1
    /\ UNCHANGED <<data, centroids, initial, entry, pc, passes, deltas,
                   maxDelta, samplerCalls, ret>>

InitVector ==
    /\ data = <<>>
    /\ centroids = <<>>
    /\ initial = <<>>
    /\ entry = NoEntry
    /\ pc = "vector"
    /\ passes = 0
    /\ deltas = <<>>
    /\ maxDelta = One
    /\ samplerCalls = 0
    /\ ret = NoRet
    /\ vec \in Points
    /\ vop = NoVop
    /\ nops = 0

NextVector ==
    \/ VAdd
    \/ VSubtract
    \/ VMulScalar
    \/ VNormalize

SpecVector == InitVector /\ [][NextVector]_vars

(***************************************************************************)
(* Properties                                                              *)
(***************************************************************************)

\* C7: Normalize applied to the null vector returns, whatever the random
\* source delivers, a vector whose Length is 1 and which is not the null
\* vector.
C7_NormalizeNullIsUnit ==
    (vop.op = "Normalize" /\ vop.recv = Null) =>
        (Length(vec) = One /\ vec /= Null)

\* the vectors of d at the positions a assigns to c, in the order of d
RECURSIVE PickFrom(_, _, _, _)
PickFrom(d, a, c, i) ==
    IF i > Len(d) THEN <<>>
    ELSE IF a[i] = c THEN <<d[i]>> \o PickFrom(d, a, c, i + 1)
         ELSE PickFrom(d, a, c, i + 1)

RECURSIVE SumLens(_, _)
SumLens(part, keys) ==
    IF keys = {} THEN 0
    ELSE LET c == CHOOSE x \in keys : TRUE
         IN  Len(part[c]) + SumLens(part, keys \ {c})

\* C1: on a clusterer with at least one centroid ClusteredPartition returns
\* a partition of the dataset: there is an assignment of the dataset's
\* positions to valid cluster identifiers such that each cluster's list is
\* exactly the vectors at its positions, in dataset order; the keys are in
\* 0..len-1 and the list sizes sum to Count.
C1_TruePartition ==
    (ret.op = "ClusteredPartition" /\ Len(centroids) >= 1) =>
        /\ ret.err = ErrNil
        /\ ~ret.nilPart
        /\ DOMAIN ret.part \subseteq 0..(Len(centroids) - 1)
        /\ SumLens(ret.part, DOMAIN ret.part) = Count(data)
        /\ \E a \in [1..Len(data) -> DOMAIN ret.part] :
              \A c \in DOMAIN ret.part : ret.part[c] = PickFrom(data, a, c, 1)

\* C1 witness: two different vectors of the dataset landed, in order, in the
\* list of one cluster of a clusterer with several centroids
C1_Witness ==
    /\ ret.op = "ClusteredPartition"
    /\ Len(centroids) >= 2
    /\ \E c \in DOMAIN ret.part :
          Len(ret.part[c]) = 2 /\ ret.part[c][1] /= ret.part[c][2]

\* C2: FindCluster on a clusterer with at least one centroid returns an
\* identifier whose centroid is at minimal distance to v, and the smallest
\* such identifier when several centroids are at that distance.
C2_NearestLowestIdentifier ==
    (ret.op = "FindCluster" /\ Len(centroids) >= 1) =>
        /\ ret.err = ErrNil
        /\ ret.cluster \in 0..(Len(centroids) - 1)
        /\ \A c \in 0..(Len(centroids) - 1) :
              /\ RLe(DistanceTo(centroids[ret.cluster + 1], ret.v),
                     DistanceTo(centroids[c + 1], ret.v))
              /\ DistanceTo(centroids[c + 1], ret.v)
                    = DistanceTo(centroids[ret.cluster + 1], ret.v)
                 => ret.cluster <= c

\* C4 as stated: on a clusterer with zero centroids ClusteredPartition fails
\* with the no-centroids error and returns no partition for any dataset, and
\* FindCluster fails with it for every vector.
C4_EmptyClustererFailsForAnyDataset ==
    /\ (ret.op = "ClusteredPartition" /\ Len(centroids) = 0) =>
          (ret.err = ErrNoCentroids /\ ret.nilPart)
    /\ (ret.op = "FindCluster" /\ Len(centroids) = 0) =>
          (ret.err = ErrNoCentroids /\ ret.cluster = -1)

\* C4 amended: on a clusterer with zero centroids ClusteredPartition fails
\* with the no-centroids error and returns no partition for every non-empty
\* dataset, and returns an empty partition without error for the empty
\* dataset; FindCluster fails with the error for every vector.
C4_EmptyClustererFailsForNonEmptyDataset ==
    /\ (ret.op = "ClusteredPartition" /\ Len(centroids) = 0 /\ Len(data) > 0) =>
          (ret.err = ErrNoCentroids /\ ret.nilPart)
    /\ (ret.op = "ClusteredPartition" /\ Len(centroids) = 0 /\ Len(data) = 0) =>
          (ret.err = ErrNil /\ ~ret.nilPart /\ ret.part = EmptyMap)
    /\ (ret.op = "FindCluster" /\ Len(centroids) = 0) =>
          (ret.err = ErrNoCentroids /\ ret.cluster = -1)

\* C4 witness: ClusteredPartition of a non-empty dataset on a clusterer with
\* zero centroids has returned
C4_Witness ==
    ret.op = "ClusteredPartition" /\ Len(centroids) = 0 /\ Len(data) > 0

\* C3: on an empty dataset each K-Means entry point returns a clusterer
\* with zero centroids, for every k and every list of supplied centroids,
\* without failing, without a refinement pass and without invoking the
\* sampler; Clusters on the result is the empty sequence.
C3_EmptyDatasetGivesEmptyClusterer ==
    (Len(data) = 0 /\ entry.name \in {"KMeans", "KMeansWithSampler", "KMeansWithCentroids"}) =>
        /\ pc = "done"
        /\ centroids = <<>>
        /\ passes = 0
        /\ samplerCalls = 0
        /\ ret.op = "Clusters" => ret.clusters = <<>>

\* C3 witness: Clusters was called on what K-Means returned for an empty
\* dataset and a request for at least one centroid
C3_Witness ==
    /\ Len(data) = 0
    /\ entry.name \in {"KMeans", "KMeansWithSampler", "KMeansWithCentroids"}
    /\ entry.k >= 1
    /\ ret.op = "Clusters"

\* C9: on a non-empty dataset the K-Means entry points never fail at run
\* time, whatever k >= 0, and what they return holds exactly k centroids.
C9_NoRuntimeFailure ==
    Len(data) > 0 =>
        /\ pc /= "panic"
        /\ pc = "done" => Len(centroids) = entry.k

\* the identifier of the nearest centroid, the lowest among the nearest
NearestLowest(v, cs) ==
    CHOOSE c \in 0..(Len(cs) - 1) :
        /\ \A o \in 0..(Len(cs) - 1) :
              RLe(DistanceTo(v, cs[c + 1]), DistanceTo(v, cs[o + 1]))
        /\ \A o \in 0..(c - 1) :
              RLt(DistanceTo(v, cs[c + 1]), DistanceTo(v, cs[o + 1]))

\* the positions of the dataset assigned to cluster c under centroids cs
AssignedTo(d, cs, c) == {i \in 1..Len(d) : NearestLowest(d[i], cs) = c}

RECURSIVE SumOf(_, _)
SumOf(d, idx) ==
    IF idx = {} THEN Null
    ELSE LET i == CHOOSE x \in idx : TRUE
         IN  Add(d[i], SumOf(d, idx \ {i}))

\* the arithmetic mean of the vectors of d at the positions idx
MeanOf(d, idx) == MulScalar(SumOf(d, idx), Rat(1, Cardinality(idx)))

\* a step of the system that is a completed refinement pass
IsPassStep == pc = "loop" /\ passes' = passes + 1

\* C8: a refinement pass replaces each centroid whose bucket received a
\* vector by the mean of the vectors assigned to it (nearest centroid, ties
\* to the lowest index), leaves every other centroid unchanged with a delta
\* of 0, and keeps the number and positions of the centroids.
C8_PassRecomputesCentroids ==
    [][IsPassStep =>
         /\ Len(centroids') = Len(centroids)
         /\ Len(deltas') = Len(centroids)
         /\ \A i \in 1..Len(centroids) :
               LET assigned == AssignedTo(data, centroids, i - 1)
               IN  IF assigned = {}
                   THEN centroids'[i] = centroids[i] /\ deltas'[i] = Zero
                   ELSE /\ centroids'[i] = MeanOf(data, assigned)
                        /\ deltas'[i] = DistanceTo(centroids[i], centroids'[i])
      ]_vars

\* C8 witness: after the first pass over two centroids, one bucket was empty
\* and the other centroid moved to the mean of several vectors
C8_Witness ==
    /\ passes = 1
    /\ Len(initial) = 2
    /\ \E i, j \in 1..2 :
          /\ AssignedTo(data, initial, i - 1) = {}
          /\ Cardinality(AssignedTo(data, initial, j - 1)) >= 2
          /\ centroids[j] /= initial[j]
          /\ centroids[i] = initial[i]

\* the positions of the group j of the grouping g
GroupOf(g, j) == {i \in DOMAIN g : g[i] = j}

\* g splits dataset d into Len(cs) non-empty groups whose means are cs, every
\* vector strictly nearer to the mean of its own group than to any other
Separates(g, d, cs) ==
    /\ \A j \in 1..Len(cs) :
          GroupOf(g, j) /= {} /\ cs[j] = MeanOf(d, GroupOf(g, j))
    /\ \A i \in 1..Len(d) : \A j \in 1..Len(cs) :
          j /= g[i] => RLt(DistanceTo(d[i], cs[g[i]]), DistanceTo(d[i], cs[j]))

\* the grouping that puts every vector with its nearest centroid
NearestGrouping(d, cs) == [i \in 1..Len(d) |-> NearestLowest(d[i], cs) + 1]

\* the groupings that separate d with means cs: there is at most one, as a
\* separating grouping puts every vector with its one nearest centroid
Groupings(d, cs) ==
    IF Len(cs) = 0 THEN {}
    ELSE {g \in {NearestGrouping(d, cs)} : Separates(g, d, cs)}

\* the groups of g as a partition: identifier j - 1 holds group j in order
GroupsAsPartition(g, d, cs) ==
    [c \in 0..(Len(cs) - 1) |-> PickFrom(d, g, c + 1, 1)]

\* C5: started from the means of k groups that separate a non-empty
\* dataset, the refinement loop makes exactly one pass, with maxDelta = 0,
\* returns the centroids unchanged, and ClusteredPartition under the result
\* yields exactly the groups.
C5_SeparatedGroupsConvergeInOnePass ==
    (Len(data) > 0 /\ pc \in {"loop", "done", "panic"}) =>
        \A g \in Groupings(data, initial) :
            /\ pc /= "panic"
            /\ pc = "loop" => passes = 0
            /\ pc = "done" =>
                  /\ passes = 1
                  /\ maxDelta = Zero
                  /\ centroids = initial
                  /\ ret.op = "ClusteredPartition" =>
                        /\ ret.err = ErrNil
                        /\ ret.part = GroupsAsPartition(g, data, initial)

\* C5 witness: ClusteredPartition was called after K-Means started from the
\* means of two separating groups, one of them holding two different vectors
C5_Witness ==
    /\ pc = "done"
    /\ ret.op = "ClusteredPartition"
    /\ Len(initial) = 2
    /\ \E g \in Groupings(data, initial) :
          \E i, j \in 1..Len(data) : g[i] = g[j] /\ data[i] /= data[j]

\* C6 as stated: for a dataset of one vector p and one initial centroid, the
\* first pass is the converging pass and the centroid returned equals p.
C6_SinglePointConvergesInFirstPass ==
    (Len(data) = 1 /\ Len(initial) = 1 /\ pc = "done") =>
        (passes = 1 /\ centroids = <<data[1]>>)

\* C6 amended: for a dataset of one vector p and one initial centroid c, the
\* centroid equals p from the first pass on and is what is returned; the
\* loop ends with the first pass when DistanceTo(c, p) <= 0.1 and with the
\* second pass otherwise.
C6_SinglePointReachedInFirstPass ==
    (Len(data) = 1 /\ Len(initial) = 1) =>
        /\ pc /= "panic"
        /\ passes >= 1 => centroids = <<data[1]>>
        /\ pc = "loop" => passes <= 1
        /\ pc = "done" =>
              passes = IF RLe(DistanceTo(initial[1], data[1]), Threshold)
                       THEN 1 ELSE 2

\* C6 witness: K-Means returned for a single vector after a second pass
C6_Witness ==
    Len(data) = 1 /\ Len(initial) = 1 /\ pc = "done" /\ passes = 2

\* the total of the distances of the vectors to their nearest centroid
RECURSIVE CostFrom(_, _, _)
CostFrom(d, cs, i) ==
    IF i > Len(d) THEN Zero
    ELSE RAdd(DistanceTo(d[i], cs[NearestLowest(d[i], cs) + 1]),
              CostFrom(d, cs, i + 1))

Cost(d, cs) == CostFrom(d, cs, 1)

\* the refinement loop is running on at least one centroid
LoopRunning == pc = "loop" /\ Len(centroids) >= 1

\* the loop has returned, after a pass whose maxDelta was <= 0.1
LoopReturned == pc = "done" /\ passes >= 1 /\ RLe(maxDelta, Threshold)

\* a pass in which a centroid moves lowers the cost
PassLowersCost ==
    (IsPassStep /\ centroids' /= centroids) =>
        RLt(Cost(data, centroids'), Cost(data, centroids))

\* C10: from a non-empty dataset and a non-empty list of centroids the
\* refinement loop reaches a pass whose maxDelta is <= 0.1 and returns,
\* within any number of passes the loop needs; a pass in which a centroid
\* moves strictly lowers the total distance of the vectors to their
\* nearest centroids.
C10_LoopTerminates ==
    /\ LoopRunning ~> LoopReturned
    /\ [](LoopRunning => passes < MaxPasses)
    /\ [][PassLowersCost]_vars

\* C10 witness: the loop returned after three passes or more
C10_Witness ==
    pc = "done" /\ Len(data) > 0 /\ Len(centroids) >= 1 /\ passes >= 3

=============================================================================
